---------------------------- MODULE Spec2Model ----------------------------
(***************************************************************************)
(* Booking engine of the pet-care platform: bookingController (create,     *)
(* status update, check-in/out, updates), the Booking mongoose model       *)
(* (pre-save hook, canBeCancelled, calculateRefund, findConflicts) and the *)
(* parts of the service and pet controllers that change what a booking is  *)
(* validated against; then the protect middleware with account             *)
(* deactivation, the pet and service controllers' reads, updates, photo    *)
(* deletion and soft deletes, registration, and the handlers that are      *)
(* taken step by step where requests served at the same time matter.       *)
(*                                                                         *)
(* Times are milliseconds since an arbitrary origin, as in JS Date values. *)
(* Money is kept in cents, so that the 5% fee and the 50% refund are exact *)
(* integers for the prices used here.                                      *)
(***************************************************************************)
EXTENDS Integers, Sequences, FiniteSets, TLC

VARIABLES
    now,        \* the server's clock
    users,      \* the User collection: isActive of each account
    services,   \* the Service collection
    pets,       \* the Pet collection
    bookings,   \* the Booking collection, in order of creation
    edits,      \* number of requests so far that changed a service or a pet
    actor,      \* req.user of the last request, where a specification records it
    last,       \* the response of the last request, named after its message
    result,     \* the documents the last response carried, as a set of ids
    inflight    \* the requests being served, where a handler is modelled in steps

vars == <<now, users, services, pets, bookings, edits, actor, last, result, inflight>>

-----------------------------------------------------------------------------
(* Bounds of the exploration *)

MaxBookings == 1
MaxSlotBookings == 2
MaxTicks == 1
MaxEdits == 1
MaxUpdates == 1

-----------------------------------------------------------------------------
(* Units of time *)

MsPerHour == 1000 * 60 * 60
MsPerDay == 1000 * 60 * 60 * 24
MsPerWeek == 1000 * 60 * 60 * 24 * 7

-----------------------------------------------------------------------------
(* Identities: role is fixed at registration (enum owner | sitter) *)

Owners == {"o1", "o2"}
Sitters == {"s1", "s2"}
Users == Owners \cup Sitters

Role(u) == IF u \in Owners THEN "owner" ELSE "sitter"

Null == "null"
\* a Date or Number path that was never set
Unset == 0 - 1
NoCheck == [time |-> Unset]
NoCancellation == [cancelledBy |-> Null, cancelledAt |-> Unset,
                   reason |-> "none", refundAmount |-> Unset]
NoNotes == "none"
Notes == {NoNotes, "text"}

Statuses == {"pending", "confirmed", "in_progress", "completed", "cancelled", "declined"}

ServiceIds == {"sv1", "sv2", "sv3"}
PetIds == {"p1", "p2"}
\* ids a request may name: the stored ones and one that matches no document
ServiceIdInputs == ServiceIds \cup {"svX"}
PetIdInputs == PetIds \cup {"pX"}

\* booking ids a request may name: every id that can exist, and one beyond
BookingIdInputs == 1..(MaxBookings + 1)
SlotBookingIdInputs == 1..MaxSlotBookings

StartInputs == {0, 2 * MsPerDay, 3 * MsPerDay, 3 * MsPerDay + 1}
DurationInputs == {0 - MsPerDay, 0, MsPerDay}

InitServices ==
    [sid \in ServiceIds |->
        CASE sid = "sv1" -> [sitter |-> "s1", isActive |-> TRUE, petTypes |-> {"dog"},
                             priceType |-> "daily", price |-> 2000,
                             instantBooking |-> FALSE, totalBookings |-> 0]
          [] sid = "sv2" -> [sitter |-> "s1", isActive |-> TRUE, petTypes |-> {"dog", "cat"},
                             priceType |-> "hourly", price |-> 1000,
                             instantBooking |-> TRUE, totalBookings |-> 0]
          [] OTHER       -> [sitter |-> "s2", isActive |-> TRUE, petTypes |-> {"dog"},
                             priceType |-> "per_service", price |-> 4000,
                             instantBooking |-> FALSE, totalBookings |-> 0]]

InitPets ==
    [pid \in PetIds |->
        IF pid = "p1" THEN [owner |-> "o1", species |-> "dog", isActive |-> TRUE,
                            name |-> "Rex", photos |-> <<"a.jpg", "b.jpg", "c.jpg">>]
                      ELSE [owner |-> "o2", species |-> "cat", isActive |-> TRUE,
                            name |-> "Tom", photos |-> <<"d.jpg">>]]

\* An email address is kept as its characters. The accounts that exist
\* from the start registered with these, which are stored in lower case.
InitEmails ==
    [u \in Users |->
        CASE u = "o1" -> <<"a", "@", "x", ".", "i", "o">>
          [] u = "o2" -> <<"c", "@", "x", ".", "i", "o">>
          [] u = "s1" -> <<"s", "@", "x", ".", "i", "o">>
          [] OTHER    -> <<"t", "@", "x", ".", "i", "o">>]

\* every account exists and is active
InitUsers == [u \in Users |-> [isActive |-> TRUE, email |-> InitEmails[u]]]

\* a response that carries no documents
NoResult == {}

\* the slots of the requests that can be in service at the same time
Slots == {"r1", "r2"}

\* a slot that serves no request
Idle == [op |-> "idle"]

NoRequests == [r \in Slots |-> Idle]

Init ==
    /\ now = MsPerDay
    /\ users = InitUsers
    /\ services = InitServices
    /\ pets = InitPets
    /\ bookings = <<>>
    /\ edits = 0
    /\ actor = Null
    /\ last = "none"
    /\ result = NoResult
    /\ inflight = NoRequests

-----------------------------------------------------------------------------
(* Helpers *)

\* a division that rounds down where Math.ceil rounds up
Ceil_floor(n, d) == n \div d

\* Math.ceil(n / d) for n >= 0, d > 0
Ceil(n, d) == IF n % d = 0 THEN n \div d ELSE (n \div d) + 1

Abs(x) == IF x < 0 THEN 0 - x ELSE x

\* the response of the request just served, named after its message
Respond(outcome) == last' = outcome /\ result' = NoResult

\* res.status(...) of each response
StatusCode(outcome) ==
    CASE outcome \in {"Created", "Registered"} -> 201
      [] outcome \in {"StatusUpdated", "CheckedIn", "CheckedOut", "UpdateAdded",
                      "ServiceUpdated", "PetDeleted", "AccountDeactivated",
                      "PetFound", "PetsListed", "PetUpdated", "PhotoDeleted",
                      "ServicesListed"} -> 200
      [] outcome \in {"ServiceDeleted"} -> 204
      [] outcome \in {"ValidationError", "UnsupportedPetType", "SlotUnavailable",
                      "InvalidTransition", "CannotCancel", "AlreadyCheckedIn",
                      "NotCheckedIn", "AlreadyCheckedOut", "InvalidPhotoIndex",
                      "EmailTaken", "DuplicateField"} -> 400
      [] outcome \in {"NotLoggedIn", "InvalidToken", "TokenExpired", "UserGone",
                      "DeactivatedAccount"} -> 401
      [] outcome \in {"Forbidden"} -> 403
      [] outcome \in {"ServiceNotAvailable", "PetNotYours", "NoBookingFound",
                      "NoActiveBookingFound", "NoServiceFound", "NoPetFound"} -> 404
      [] OTHER -> 500

BlockingStatuses == {"pending", "confirmed", "in_progress"}

\* findConflicts with strict comparisons: touching intervals would not conflict
findConflicts_strict(sitterId, startDate, endDate) ==
    {i \in 1..Len(bookings) :
        /\ bookings[i].sitter = sitterId
        /\ bookings[i].status \in BlockingStatuses
        /\ bookings[i].startDate < endDate
        /\ bookings[i].endDate > startDate}

\* Booking.findConflicts(sitterId, startDate, endDate): indexes of the matches
findConflicts(sitterId, startDate, endDate) ==
    {i \in 1..Len(bookings) :
        /\ bookings[i].sitter = sitterId
        /\ bookings[i].status \in BlockingStatuses
        /\ bookings[i].startDate <= endDate
        /\ bookings[i].endDate >= startDate}

\* price before the fee, by service.priceType
basePrice(service, start, end) ==
    CASE service.priceType = "hourly" -> service.price * Ceil(Abs(end - start), MsPerHour)
      [] service.priceType = "daily"  -> service.price * Ceil(Abs(end - start), MsPerDay)
      [] service.priceType = "weekly" -> service.price * Ceil(Abs(end - start), MsPerWeek)
      [] OTHER -> service.price

\* serviceFee = totalPrice * 0.05
feeOf(base) == (base * 5) \div 100

\* Joi bookingSchema: startDate min('now'), endDate min(ref startDate)
joiBookingValid(start, end) == start >= now /\ end >= start

\* a save hook that checks only that a new booking does not start in the past
preSave_startOnly(isNew, start, end) ==
    IF isNew /\ start < now THEN "error" ELSE "ok"

\* bookingSchema.pre('save'): the error it raises, or "ok"
preSave(isNew, start, end) ==
    IF end <= start THEN "error"
    ELSE IF isNew /\ start < now THEN "error"
    ELSE "ok"

\* newBooking that leaves status to the schema default
newBooking_defaultStatus(caller, service, sid, pid, start, end) ==
    [owner |-> caller, sitter |-> service.sitter, service |-> sid, pet |-> pid,
     startDate |-> start, endDate |-> end,
     totalPrice |-> basePrice(service, start, end) + feeOf(basePrice(service, start, end)),
     serviceFee |-> feeOf(basePrice(service, start, end)),
     status |-> "pending",
     ownerNotes |-> NoNotes, sitterNotes |-> NoNotes,
     checkIn |-> NoCheck, checkOut |-> NoCheck,
     updates |-> <<>>, cancellation |-> NoCancellation]

newBooking(caller, service, sid, pid, start, end) ==
    [owner |-> caller, sitter |-> service.sitter, service |-> sid, pet |-> pid,
     startDate |-> start, endDate |-> end,
     totalPrice |-> basePrice(service, start, end) + feeOf(basePrice(service, start, end)),
     serviceFee |-> feeOf(basePrice(service, start, end)),
     status |-> IF service.instantBooking THEN "confirmed" ELSE "pending",
     ownerNotes |-> NoNotes, sitterNotes |-> NoNotes,
     checkIn |-> NoCheck, checkOut |-> NoCheck,
     updates |-> <<>>, cancellation |-> NoCancellation]

-----------------------------------------------------------------------------
(* POST /api/bookings: restrictTo('owner'), validate(schemas.booking),      *)
(* bookingController.createBooking                                         *)

\* Service.findOne({ _id: serviceId, isActive: true }) finds a document
serviceFound(sid) == sid \in ServiceIds /\ services[sid].isActive

\* the pet lookup without the owner filter
petFound_anyOwner(caller, pid) == pid \in PetIds /\ pets[pid].isActive

\* Pet.findOne({ _id: petId, owner: req.user.id, isActive: true }) finds a document
petFound(caller, pid) == pid \in PetIds /\ pets[pid].owner = caller /\ pets[pid].isActive

createBookingOutcome(caller, sid, pid, start, end) ==
    IF Role(caller) # "owner" THEN "Forbidden"
    ELSE IF ~joiBookingValid(start, end) THEN "ValidationError"
    ELSE IF ~serviceFound(sid) THEN "ServiceNotAvailable"
    ELSE IF ~petFound(caller, pid) THEN "PetNotYours"
    ELSE IF pets[pid].species \notin services[sid].petTypes THEN "UnsupportedPetType"
    ELSE IF findConflicts(services[sid].sitter, start, end) # {} THEN "SlotUnavailable"
    ELSE IF preSave(TRUE, start, end) # "ok" THEN "ServerError"
    ELSE "Created"

\* createBooking that keeps the document the save hook turned down
createBooking_savesBeforeHook(caller, sid, pid, start, end) ==
    /\ Respond(createBookingOutcome(caller, sid, pid, start, end))
    /\ IF createBookingOutcome(caller, sid, pid, start, end) \in {"Created", "ServerError"}
         THEN bookings' = Append(bookings, newBooking(caller, services[sid], sid, pid, start, end))
         ELSE UNCHANGED bookings
    /\ UNCHANGED <<now, users, services, pets>>

createBooking(caller, sid, pid, start, end) ==
    /\ Respond(createBookingOutcome(caller, sid, pid, start, end))
    /\ IF createBookingOutcome(caller, sid, pid, start, end) = "Created"
         THEN bookings' = Append(bookings, newBooking(caller, services[sid], sid, pid, start, end))
         ELSE UNCHANGED bookings
    /\ UNCHANGED <<now, users, services, pets>>

-----------------------------------------------------------------------------
(* Booking instance methods *)

\* canBeCancelled that accepts a start exactly 24 hours away
canBeCancelled_inclusive(b) ==
    IF b.status = "completed" \/ b.status = "cancelled" THEN FALSE
    ELSE (b.startDate - now) >= 24 * MsPerHour

\* bookingSchema.methods.canBeCancelled
canBeCancelled(b) ==
    IF b.status = "completed" \/ b.status = "cancelled" THEN FALSE
    ELSE (b.startDate - now) > 24 * MsPerHour

\* calculateRefund that refunds in full at exactly 48 hours
calculateRefund_inclusive(b) ==
    IF (b.startDate - now) >= 48 * MsPerHour THEN b.totalPrice
    ELSE IF (b.startDate - now) > 24 * MsPerHour THEN (b.totalPrice * 5) \div 10
    ELSE 0

\* bookingSchema.methods.calculateRefund
calculateRefund(b) ==
    IF (b.startDate - now) > 48 * MsPerHour THEN b.totalPrice
    ELSE IF (b.startDate - now) > 24 * MsPerHour THEN (b.totalPrice * 5) \div 10
    ELSE 0

-----------------------------------------------------------------------------
(* PATCH /api/bookings/:id/status: bookingController.updateBookingStatus   *)

\* a transition table in which a declined booking can still be confirmed
validTransitions_declinedReopens ==
    [s \in Statuses |->
        CASE s = "pending"     -> {"confirmed", "declined", "cancelled"}
          [] s = "confirmed"   -> {"in_progress", "cancelled"}
          [] s = "in_progress" -> {"completed", "cancelled"}
          [] s = "declined"    -> {"confirmed"}
          [] OTHER             -> {}]

validTransitions ==
    [s \in Statuses |->
        CASE s = "pending"     -> {"confirmed", "declined", "cancelled"}
          [] s = "confirmed"   -> {"in_progress", "cancelled"}
          [] s = "in_progress" -> {"completed", "cancelled"}
          [] OTHER             -> {}]

ownerAllowedStatuses == {"cancelled"}

sitterAllowedStatuses == {"confirmed", "declined", "in_progress", "completed"}

\* the booking lookup by _id alone
statusQueryMatches_idOnly(caller, bid) == bid \in 1..Len(bookings)

\* Booking.findOne(query): _id plus owner or sitter by the caller's role
statusQueryMatches(caller, bid) ==
    /\ bid \in 1..Len(bookings)
    /\ IF Role(caller) = "owner" THEN bookings[bid].owner = caller
                                 ELSE bookings[bid].sitter = caller

updateStatusOutcome(caller, bid, status) ==
    IF Role(caller) = "owner" /\ status \notin ownerAllowedStatuses THEN "Forbidden"
    ELSE IF Role(caller) = "sitter" /\ status \notin sitterAllowedStatuses THEN "Forbidden"
    ELSE IF ~statusQueryMatches(caller, bid) THEN "NoBookingFound"
    ELSE IF status \notin validTransitions[bookings[bid].status] THEN "InvalidTransition"
    ELSE IF status = "cancelled" /\ ~canBeCancelled(bookings[bid]) THEN "CannotCancel"
    ELSE IF preSave(FALSE, bookings[bid].startDate, bookings[bid].endDate) # "ok" THEN "ServerError"
    ELSE "StatusUpdated"

\* the document as saved by a successful status update
statusUpdated(b, caller, status, notes) ==
    [b EXCEPT
        !.cancellation = IF status = "cancelled"
                           THEN [cancelledBy |-> caller, cancelledAt |-> now,
                                 reason |-> notes, refundAmount |-> calculateRefund(b)]
                           ELSE @,
        !.status = status,
        !.ownerNotes = IF Role(caller) = "owner" /\ notes # NoNotes THEN notes ELSE @,
        !.sitterNotes = IF Role(caller) = "sitter" /\ notes # NoNotes THEN notes ELSE @]

updateBookingStatus(caller, bid, status, notes) ==
    /\ Respond(updateStatusOutcome(caller, bid, status))
    /\ IF updateStatusOutcome(caller, bid, status) = "StatusUpdated"
         THEN /\ bookings' = [bookings EXCEPT ![bid] = statusUpdated(@, caller, status, notes)]
              /\ services' = IF status = "confirmed"
                               THEN [services EXCEPT ![bookings[bid].service].totalBookings = @ + 1]
                               ELSE services
         ELSE UNCHANGED <<bookings, services>>
    /\ UNCHANGED <<now, users, pets>>

-----------------------------------------------------------------------------
(* POST /api/bookings/:id/checkin and /checkout: restrictTo('sitter'),      *)
(* bookingController.checkInOut                                            *)

\* checkInOut that accepts a check-in on a booking already checked in
checkInOutOutcome_repeatable(caller, bid, isCheckIn) ==
    IF Role(caller) # "sitter" THEN "Forbidden"
    ELSE IF ~(bid \in 1..Len(bookings) /\ bookings[bid].sitter = caller) THEN "NoBookingFound"
    ELSE IF ~isCheckIn /\ bookings[bid].checkIn.time = Unset THEN "NotCheckedIn"
    ELSE IF ~isCheckIn /\ bookings[bid].checkOut.time # Unset THEN "AlreadyCheckedOut"
    ELSE IF isCheckIn THEN "CheckedIn"
    ELSE "CheckedOut"

checkInOutOutcome(caller, bid, isCheckIn) ==
    IF Role(caller) # "sitter" THEN "Forbidden"
    ELSE IF ~(bid \in 1..Len(bookings) /\ bookings[bid].sitter = caller) THEN "NoBookingFound"
    ELSE IF isCheckIn /\ bookings[bid].checkIn.time # Unset THEN "AlreadyCheckedIn"
    ELSE IF ~isCheckIn /\ bookings[bid].checkIn.time = Unset THEN "NotCheckedIn"
    ELSE IF ~isCheckIn /\ bookings[bid].checkOut.time # Unset THEN "AlreadyCheckedOut"
    ELSE IF preSave(FALSE, bookings[bid].startDate, bookings[bid].endDate) # "ok" THEN "ServerError"
    ELSE IF isCheckIn THEN "CheckedIn"
    ELSE "CheckedOut"

\* checkData keeps the time; its notes and photos are free text nothing reads
checked(b, isCheckIn) ==
    IF isCheckIn
      THEN [b EXCEPT !.checkIn = [time |-> now], !.status = "in_progress"]
      ELSE [b EXCEPT !.checkOut = [time |-> now], !.status = "completed"]

checkInOut(caller, bid, isCheckIn) ==
    /\ Respond(checkInOutOutcome(caller, bid, isCheckIn))
    /\ IF checkInOutOutcome(caller, bid, isCheckIn) \in {"CheckedIn", "CheckedOut"}
         THEN bookings' = [bookings EXCEPT ![bid] = checked(@, isCheckIn)]
         ELSE UNCHANGED bookings
    /\ UNCHANGED <<now, users, services, pets>>

-----------------------------------------------------------------------------
(* POST /api/bookings/:id/updates: restrictTo('sitter'),                    *)
(* bookingController.addBookingUpdate                                      *)

\* addBookingUpdate whose lookup leaves the status out
addUpdateOutcome_anyStatus(caller, bid) ==
    IF Role(caller) # "sitter" THEN "Forbidden"
    ELSE IF ~(bid \in 1..Len(bookings) /\ bookings[bid].sitter = caller) THEN "NoActiveBookingFound"
    ELSE "UpdateAdded"

addUpdateOutcome(caller, bid) ==
    IF Role(caller) # "sitter" THEN "Forbidden"
    ELSE IF ~(/\ bid \in 1..Len(bookings)
              /\ bookings[bid].sitter = caller
              /\ bookings[bid].status = "in_progress") THEN "NoActiveBookingFound"
    ELSE IF preSave(FALSE, bookings[bid].startDate, bookings[bid].endDate) # "ok" THEN "ServerError"
    ELSE "UpdateAdded"

addBookingUpdate(caller, bid) ==
    /\ Respond(addUpdateOutcome(caller, bid))
    /\ IF addUpdateOutcome(caller, bid) = "UpdateAdded"
         THEN bookings' = [bookings EXCEPT ![bid].updates =
                              Append(@, [time |-> now, author |-> caller])]
         ELSE UNCHANGED bookings
    /\ UNCHANGED <<now, users, services, pets>>

-----------------------------------------------------------------------------
(* Service and pet changes a booking request can observe                    *)

\* PUT /api/services/:id/manage with body {instantBooking}: restrictTo('sitter'),
\* serviceController.updateService
\* The request body is passed to the update as it arrived: validate() checks
\* it against the Joi schema with stripUnknown but does not replace req.body.
\* A body is modelled by its instantBooking field, its top-level
\* totalBookings field (Unset when absent), the amount of a
\* $inc: {totalBookings: n} update operator it may carry (0 when absent),
\* its top-level sitter field and the sitter of a $set: {sitter: id} update
\* operator it may carry (Null when absent).
ServiceBodies ==
    [instantBooking : BOOLEAN, totalBookings : {Unset, 7}, incTotalBookings : {0, 1},
     sitter : {Null, "s2"}, setSitter : {Null, "s2"}]

\* bodies that name the sitter in no way
CounterServiceBodies ==
    {body \in ServiceBodies : body.sitter = Null /\ body.setSitter = Null}

\* bodies that name totalBookings in no way
SitterServiceBodies ==
    {body \in ServiceBodies : body.totalBookings = Unset /\ body.incTotalBookings = 0}

\* bodies that name neither
PlainServiceBodies == CounterServiceBodies \cap SitterServiceBodies

\* delete req.body.sitter / rating / totalBookings / replaceImages
withoutProtectedFields(body) == [body EXCEPT !.totalBookings = Unset, !.sitter = Null]

\* Service.findByIdAndUpdate(id, body): top-level fields are set, update
\* operators in the body are applied
findByIdAndUpdate(service, body) ==
    [service EXCEPT
        !.instantBooking = body.instantBooking,
        !.sitter = IF body.setSitter # Null THEN body.setSitter
                   ELSE IF body.sitter # Null THEN body.sitter
                   ELSE @,
        !.totalBookings = IF body.totalBookings # Unset
                            THEN body.totalBookings + body.incTotalBookings
                            ELSE @ + body.incTotalBookings]

\* the service lookup by _id alone
ownServiceFound_anySitter(caller, sid) == sid \in ServiceIds

\* Service.findOne({ _id: req.params.id, sitter: req.user.id }) finds a document
ownServiceFound(caller, sid) == sid \in ServiceIds /\ services[sid].sitter = caller

updateService(caller, sid, body) ==
    /\ IF Role(caller) # "sitter" THEN
            Respond("Forbidden") /\ UNCHANGED services
       ELSE IF ~ownServiceFound(caller, sid) THEN
            Respond("NoServiceFound") /\ UNCHANGED services
       ELSE /\ Respond("ServiceUpdated")
            /\ services' = [services EXCEPT
                               ![sid] = findByIdAndUpdate(@, withoutProtectedFields(body))]
    /\ UNCHANGED <<now, users, pets, bookings>>

\* DELETE /api/services/:id/manage: restrictTo('sitter'), serviceController.deleteService
deleteService(caller, sid) ==
    /\ IF Role(caller) # "sitter" THEN
            Respond("Forbidden") /\ UNCHANGED services
       ELSE IF ~ownServiceFound(caller, sid) THEN
            Respond("NoServiceFound") /\ UNCHANGED services
       ELSE /\ Respond("ServiceDeleted")
            /\ services' = [services EXCEPT ![sid].isActive = FALSE]
    /\ UNCHANGED <<now, users, pets, bookings>>

\* DELETE /api/pets/:id: restrictTo('owner'), petController.deletePet
deletePetOutcome(caller, pid) ==
    IF Role(caller) # "owner" THEN "Forbidden"
    ELSE IF ~petFound(caller, pid) THEN "NoPetFound"
    ELSE "PetDeleted"

deletePet(caller, pid) ==
    /\ Respond(deletePetOutcome(caller, pid))
    /\ IF deletePetOutcome(caller, pid) = "PetDeleted"
         THEN pets' = [pets EXCEPT ![pid].isActive = FALSE]
         ELSE UNCHANGED pets
    /\ UNCHANGED <<now, users, services, bookings>>

-----------------------------------------------------------------------------
(* Passage of time between requests *)

Tick ==
    /\ now' = now + MsPerDay
    /\ UNCHANGED <<users, services, pets, bookings, last, result>>

-----------------------------------------------------------------------------
(* Spec: the life of one booking against a fixed catalogue, every booking   *)
(* request drawn from the full input sets. The bounds cap the number of     *)
(* bookings, of log entries per booking and of clock steps.                 *)

LogHasRoom(bid) == bid \in 1..Len(bookings) => Len(bookings[bid].updates) < MaxUpdates

ClockHasRoom == now < (1 + MaxTicks) * MsPerDay

Next ==
    \/ /\ Len(bookings) < MaxBookings
       /\ \E c \in Users, sid \in ServiceIdInputs, pid \in PetIdInputs,
             st \in StartInputs, d \in DurationInputs :
               createBooking(c, sid, pid, st, st + d)
       /\ UNCHANGED <<edits, actor, inflight>>
    \/ /\ \E c \in Users, bid \in BookingIdInputs, st \in Statuses, n \in Notes :
               updateBookingStatus(c, bid, st, n)
       /\ UNCHANGED <<edits, actor, inflight>>
    \/ /\ \E c \in Users, bid \in BookingIdInputs, isCheckIn \in BOOLEAN :
               checkInOut(c, bid, isCheckIn)
       /\ UNCHANGED <<edits, actor, inflight>>
    \/ /\ \E c \in Users, bid \in BookingIdInputs : LogHasRoom(bid) /\ addBookingUpdate(c, bid)
       /\ UNCHANGED <<edits, actor, inflight>>
    \/ /\ ClockHasRoom
       /\ Tick
       /\ UNCHANGED <<edits, actor, inflight>>

Spec == Init /\ [][Next]_vars

-----------------------------------------------------------------------------
(* SlotSpec: several bookings competing for the sitters' calendars. Status  *)
(* requests carry no notes, the update log is left alone and the clock      *)
(* stands still, so that the calendar is what varies.                       *)

SlotNext ==
    \/ /\ Len(bookings) < MaxSlotBookings
       /\ \E c \in Users, sid \in ServiceIdInputs, pid \in PetIdInputs,
             st \in StartInputs, d \in DurationInputs :
               createBooking(c, sid, pid, st, st + d)
       /\ UNCHANGED <<edits, actor, inflight>>
    \/ /\ \E c \in Users, bid \in SlotBookingIdInputs, st \in Statuses :
               updateBookingStatus(c, bid, st, NoNotes)
       /\ UNCHANGED <<edits, actor, inflight>>
    \/ /\ \E c \in Users, bid \in SlotBookingIdInputs, isCheckIn \in BOOLEAN :
               checkInOut(c, bid, isCheckIn)
       /\ UNCHANGED <<edits, actor, inflight>>

SlotSpec == Init /\ [][SlotNext]_vars

-----------------------------------------------------------------------------
(* CatalogSpec: bookings being created while sitters and owners change the  *)
(* catalogue (instant booking switched, services and pets soft-deleted) and *)
(* time passes.                                                             *)

\* a request that may change a service or a pet counts against MaxEdits
Edit(A) ==
    /\ edits < MaxEdits
    /\ A
    /\ edits' = IF services' # services \/ pets' # pets THEN edits + 1 ELSE edits
    /\ UNCHANGED <<actor, inflight>>

CatalogNext ==
    \/ /\ Len(bookings) < MaxSlotBookings
       /\ \E c \in Users, sid \in ServiceIdInputs, pid \in PetIdInputs,
             st \in StartInputs, d \in DurationInputs :
               createBooking(c, sid, pid, st, st + d)
       /\ UNCHANGED <<edits, actor, inflight>>
    \/ \E c \in Users, sid \in ServiceIdInputs, body \in PlainServiceBodies :
           Edit(updateService(c, sid, body))
    \/ \E c \in Users, sid \in ServiceIdInputs : Edit(deleteService(c, sid))
    \/ \E c \in Users, pid \in PetIdInputs : Edit(deletePet(c, pid))
    \/ /\ ClockHasRoom
       /\ Tick
       /\ UNCHANGED <<edits, actor, inflight>>

CatalogSpec == Init /\ [][CatalogNext]_vars

-----------------------------------------------------------------------------
(* The booking lifecycle as the specification states it                     *)

\* the transition table of the booking state machine
TransitionTable ==
    [s \in Statuses |->
        CASE s = "pending"     -> {"confirmed", "declined", "cancelled"}
          [] s = "confirmed"   -> {"in_progress", "cancelled"}
          [] s = "in_progress" -> {"completed", "cancelled"}
          [] s = "completed"   -> {}
          [] s = "cancelled"   -> {}
          [] s = "declined"    -> {}]

TerminalStatuses == {"completed", "cancelled", "declined"}

OwnerRequests == {"cancelled"}
SitterRequests == {"confirmed", "declined", "in_progress", "completed"}

\* the (current, requested) pair of a status request is not in the table
OffTable(bid, st) ==
    bid \in 1..Len(bookings) /\ st \notin TransitionTable[bookings[bid].status]

\* responses that refuse a request
Refusals ==
    {"Forbidden", "ValidationError", "ServiceNotAvailable", "PetNotYours",
     "UnsupportedPetType", "SlotUnavailable", "ServerError", "NoBookingFound",
     "InvalidTransition", "CannotCancel", "AlreadyCheckedIn", "NotCheckedIn",
     "AlreadyCheckedOut", "NoActiveBookingFound", "NoServiceFound", "NoPetFound"}

\* a refused request leaves bookings, services and pets as they were
RefusalChangesNothing ==
    last' \in Refusals => bookings' = bookings /\ services' = services /\ pets' = pets

\* booking i goes to cancelled in this step
BecomesCancelled(i) ==
    bookings[i].status # "cancelled" /\ bookings'[i].status = "cancelled"

\* C1 as claimed: every status request whose (current status, requested
\* status) pair is not in the transition table fails with InvalidTransition
\* and leaves the booking's status unchanged.
C1_AsClaimed ==
    [][\A c \in Users, bid \in BookingIdInputs, st \in Statuses, n \in Notes :
          (updateBookingStatus(c, bid, st, n) /\ OffTable(bid, st))
              => /\ last' = "InvalidTransition"
                 /\ bookings'[bid].status = bookings[bid].status]_vars

\* what a status request off the table is answered with
OffTableAnswer(c, bid, st) ==
    IF c \in Owners /\ st \notin OwnerRequests THEN "Forbidden"
    ELSE IF c \in Sitters /\ st \notin SitterRequests THEN "Forbidden"
    ELSE IF c \notin {bookings[bid].owner, bookings[bid].sitter} THEN "NoBookingFound"
    ELSE "InvalidTransition"

\* C1 amended: a status request whose pair is not in the table always fails
\* and changes no booking and no service; it fails with Forbidden when the
\* requested status is not one the caller's role may ask for, with NotFound
\* when the caller is not the booking's owner (or sitter, for a sitter), and
\* with InvalidTransition otherwise.
C1_OffTableRejected ==
    /\ [](\A c \in Users, bid \in BookingIdInputs, st \in Statuses :
            OffTable(bid, st) => updateStatusOutcome(c, bid, st) = OffTableAnswer(c, bid, st))
    /\ [][/\ RefusalChangesNothing
          /\ last' = "InvalidTransition"
               => \E i \in 1..Len(bookings), st \in Statuses : OffTable(i, st)]_vars

\* a request was refused as an invalid transition on a booking that is over
C1_Witness ==
    /\ last = "InvalidTransition"
    /\ \E i \in 1..Len(bookings) : bookings[i].status \in TerminalStatuses

\* C2: every change of a booking's status, by whatever operation, goes along
\* an edge of the transition table.
C2_StatusFollowsTable ==
    [][\A i \in 1..Len(bookings) :
          bookings'[i].status # bookings[i].status
              => bookings'[i].status \in TransitionTable[bookings[i].status]]_vars

\* C3: once a booking is completed, cancelled or declined, no operation
\* changes any of its persisted fields.
C3_TerminalFrozen ==
    [][\A i \in 1..Len(bookings) :
          bookings[i].status \in TerminalStatuses => bookings'[i] = bookings[i]]_vars

\* C4: no two distinct bookings of one sitter that are both in a blocking
\* status have overlapping intervals (a.start <= b.end and a.end >= b.start).
C4_NoBlockingOverlap ==
    \A i, j \in 1..Len(bookings) :
        (/\ i # j
         /\ bookings[i].sitter = bookings[j].sitter
         /\ bookings[i].status \in {"pending", "confirmed", "in_progress"}
         /\ bookings[j].status \in {"pending", "confirmed", "in_progress"})
            => ~(/\ bookings[i].startDate <= bookings[j].endDate
                 /\ bookings[i].endDate >= bookings[j].startDate)

\* C5: a status request is accepted only from the booking's owner asking for
\* cancelled or from the booking's sitter asking for confirmed, declined,
\* in_progress or completed; every other status request is refused, and a
\* refused request changes nothing.
C5_RoleGatedStatus ==
    /\ [](\A c \in Users, bid \in BookingIdInputs, st \in Statuses :
            updateStatusOutcome(c, bid, st) = "StatusUpdated"
                => /\ bid \in 1..Len(bookings)
                   /\ \/ c = bookings[bid].owner /\ st = "cancelled"
                      \/ c = bookings[bid].sitter /\ st \in SitterRequests)
    /\ [][/\ RefusalChangesNothing
          /\ \A i \in 1..Len(bookings) :
                (last' = "StatusUpdated" /\ bookings'[i] # bookings[i])
                    => bookings'[i].status # bookings[i].status]_vars

\* the sitter's request moved a booking, and the owner is not the one who did it
C5_Witness ==
    /\ last = "StatusUpdated"
    /\ \E i \in 1..Len(bookings) :
          bookings[i].status = "declined" /\ bookings[i].sitterNotes # NoNotes

\* C6: a booking becomes cancelled only when its start is strictly more than
\* 24 hours after the request; a cancel request on a pending, confirmed or
\* in_progress booking that starts in 24 hours or less is refused
\* (CannotCancel for the booking's owner) and writes nothing.
C6_CancelWindow ==
    /\ [](\A c \in Users, bid \in 1..Len(bookings) :
            (/\ bookings[bid].status \in {"pending", "confirmed", "in_progress"}
             /\ bookings[bid].startDate - now <= 24 * 60 * 60 * 1000)
                => /\ updateStatusOutcome(c, bid, "cancelled") \in Refusals
                   /\ c = bookings[bid].owner
                        => updateStatusOutcome(c, bid, "cancelled") = "CannotCancel")
    /\ [][/\ RefusalChangesNothing
          /\ \A i \in 1..Len(bookings) :
                (BecomesCancelled(i) \/ bookings'[i].cancellation # bookings[i].cancellation)
                    => bookings[i].startDate - now > 24 * 60 * 60 * 1000]_vars

\* the owner asked to cancel a booking that starts in 24 hours or less
C6_Witness ==
    /\ last = "CannotCancel"
    /\ \E i \in 1..Len(bookings) :
          /\ bookings[i].status \in {"pending", "confirmed", "in_progress"}
          /\ bookings[i].startDate - now <= 24 * 60 * 60 * 1000
          /\ bookings[i].cancellation.cancelledBy = Null

\* the refund the policy grants booking b at the present time
RefundDue(b) ==
    IF b.startDate - now > 48 * 60 * 60 * 1000 THEN b.totalPrice
    ELSE IF b.startDate - now > 24 * 60 * 60 * 1000 THEN b.totalPrice \div 2
    ELSE 0

\* C7: the step that makes a booking cancelled writes its cancellation record
\* (who, when, reason, refund), the record is written by no other step, and
\* the refund is the full price with more than 48 hours to go, half of it
\* with more than 24 and at most 48 hours, and 0 otherwise.
C7_RefundRecorded ==
    /\ [](\A c \in Users, bid \in 1..Len(bookings), n \in Notes :
            statusUpdated(bookings[bid], c, "cancelled", n).cancellation =
                [cancelledBy |-> c, cancelledAt |-> now, reason |-> n,
                 refundAmount |-> RefundDue(bookings[bid])])
    /\ [][\A i \in 1..Len(bookings) :
            /\ BecomesCancelled(i) =>
                  /\ bookings'[i].cancellation.cancelledBy = bookings[i].owner
                  /\ bookings'[i].cancellation.cancelledAt = now
                  /\ bookings'[i].cancellation.reason \in {NoNotes, bookings'[i].ownerNotes}
                  /\ bookings'[i].cancellation.refundAmount = RefundDue(bookings[i])
            /\ bookings'[i].cancellation # bookings[i].cancellation
                  => bookings'[i].status = "cancelled" /\ last' = "StatusUpdated"]_vars

\* a booking was cancelled with half of its price refunded
C7_Witness ==
    \E i \in 1..Len(bookings) :
        /\ bookings[i].status = "cancelled"
        /\ bookings[i].cancellation.refundAmount * 2 = bookings[i].totalPrice
        /\ bookings[i].cancellation.refundAmount > 0

\* the pet, service and species checks of a booking request, as specified
ServiceOk(sid) == sid \in ServiceIds /\ services[sid].isActive
PetOk(c, pid) == pid \in PetIds /\ pets[pid].isActive /\ pets[pid].owner = c
SpeciesOk(sid, pid) == pets[pid].species \in services[sid].petTypes

\* the request passed the route's role and schema checks and reached the handler
Reached(c, st, e) == c \in Owners /\ st >= now /\ e >= st

\* some blocking booking of the sitter overlaps [st, e], bounds included
SlotTaken(sitter, st, e) ==
    \E i \in 1..Len(bookings) :
        /\ bookings[i].sitter = sitter
        /\ bookings[i].status \in {"pending", "confirmed", "in_progress"}
        /\ bookings[i].startDate <= e
        /\ bookings[i].endDate >= st

\* C8: once the service, pet and species checks have passed, a booking
\* request is refused with SlotUnavailable exactly when a pending, confirmed
\* or in_progress booking of the service's sitter overlaps the requested
\* interval (touching intervals included), and that refusal persists nothing.
C8_SlotUnavailable ==
    /\ [](\A c \in Owners, pid \in PetIds :
            PetOk(c, pid) =>
              \A sid \in ServiceIds :
                (ServiceOk(sid) /\ SpeciesOk(sid, pid)) =>
                  \A st \in StartInputs, d \in DurationInputs :
                    Reached(c, st, st + d) =>
                      (createBookingOutcome(c, sid, pid, st, st + d) = "SlotUnavailable"
                         <=> SlotTaken(services[sid].sitter, st, st + d)))
    /\ [][/\ last' = "SlotUnavailable" => bookings' = bookings /\ bookings # <<>>
          /\ Len(bookings') > Len(bookings)
               => ~SlotTaken(bookings'[Len(bookings')].sitter,
                             bookings'[Len(bookings')].startDate,
                             bookings'[Len(bookings')].endDate)]_vars

\* a request was refused for the slot while the sitter's only booking is under way
C8_Witness ==
    /\ last = "SlotUnavailable"
    /\ Len(bookings) = 1
    /\ bookings[1].status = "in_progress"
    /\ bookings[1].checkIn.time # Unset

C10_InitialStatus ==
    [][Len(bookings') > Len(bookings)
          => /\ Len(bookings') = Len(bookings) + 1
             /\ bookings'[Len(bookings')].status =
                  IF services[bookings'[Len(bookings')].service].instantBooking
                    THEN "confirmed" ELSE "pending"]_vars

\* a booking of the first service was created confirmed after its sitter
\* had switched instant booking on
C10_Witness ==
    /\ last = "Created"
    /\ bookings # <<>>
    /\ bookings[Len(bookings)].service = "sv1"
    /\ bookings[Len(bookings)].status = "confirmed"

-----------------------------------------------------------------------------
(* PriceSpec: one booking request against catalogues of every price type    *)
(* and of several prices, for durations that fall on and off the unit of    *)
(* each price type.                                                         *)

PriceTypes == {"hourly", "daily", "weekly", "per_service"}

\* prices in cents
Prices == {1000, 2000}

\* 1 hour, 90 minutes, 2 days, 1 week, 8 days
PriceDurations == {MsPerHour, (3 * MsPerHour) \div 2, 2 * MsPerDay, MsPerWeek, 8 * MsPerDay}

PriceInit ==
    /\ now = MsPerDay
    /\ users = InitUsers
    /\ \E pt \in PriceTypes, p \in Prices :
          services = [sid \in ServiceIds |->
                         [InitServices[sid] EXCEPT !.priceType = pt, !.price = p]]
    /\ pets = InitPets
    /\ bookings = <<>>
    /\ edits = 0
    /\ actor = Null
    /\ last = "none"
    /\ result = NoResult
    /\ inflight = NoRequests

PriceNext ==
    /\ Len(bookings) < MaxBookings
    /\ \E c \in Users, sid \in ServiceIds, pid \in PetIds, d \in PriceDurations :
          createBooking(c, sid, pid, 2 * MsPerDay, 2 * MsPerDay + d)
    /\ UNCHANGED <<edits, actor, inflight>>

PriceSpec == PriceInit /\ [][PriceNext]_vars

-----------------------------------------------------------------------------
(* Claims about booking requests: price and dates                           *)

\* the least number of whole units that cover a duration
UnitsCovering(d, unit) ==
    CHOOSE k \in 0..((d \div unit) + 1) : k * unit >= d /\ (k = 0 \/ (k - 1) * unit < d)

\* the price before the fee, as specified
PriceAsSpecified(s, d) ==
    CASE s.priceType = "hourly" -> s.price * UnitsCovering(d, 60 * 60 * 1000)
      [] s.priceType = "daily"  -> s.price * UnitsCovering(d, 24 * 60 * 60 * 1000)
      [] s.priceType = "weekly" -> s.price * UnitsCovering(d, 7 * 24 * 60 * 60 * 1000)
      [] s.priceType = "per_service" -> s.price

\* C11: every created booking has serviceFee equal to 5% of the base price
\* (price times the number of started hours, days or weeks, or the flat
\* price for per_service) and totalPrice equal to base price plus serviceFee.
C11_Pricing ==
    [][Len(bookings') > Len(bookings)
          => LET b == bookings'[Len(bookings')]
                 base == PriceAsSpecified(services[b.service], Abs(b.endDate - b.startDate))
             IN /\ last' = "Created"
                /\ b.serviceFee * 100 = base * 5
                /\ b.totalPrice = base + b.serviceFee]_vars

\* an hourly service at 10.00 booked for 90 minutes costs 21.00
C11_Witness ==
    /\ last = "Created"
    /\ Len(bookings) = 1
    /\ bookings[1].endDate - bookings[1].startDate = 90 * 60 * 1000
    /\ services[bookings[1].service].priceType = "hourly"
    /\ services[bookings[1].service].price = 1000
    /\ bookings[1].totalPrice = 2100

\* C12: every persisted booking ends strictly after it starts, and a booking
\* is created only with a start that is not before the time of the request.
C12_DatesValid ==
    /\ [](\A i \in 1..Len(bookings) : bookings[i].endDate > bookings[i].startDate)
    /\ [][Len(bookings') > Len(bookings)
            => /\ bookings'[Len(bookings')].startDate >= now
               /\ bookings'[Len(bookings')].endDate > bookings'[Len(bookings')].startDate]_vars

\* a booking that starts at the very time of its request was created later in the day
C12_Witness ==
    /\ last = "Created"
    /\ Len(bookings) = 1
    /\ now > 24 * 60 * 60 * 1000
    /\ bookings[1].startDate = now

\* C13: a booking request by an owner whose endDate is not after its
\* startDate, or whose startDate is before the time of the request, fails with
\* ValidationError (400) and persists no booking.
C13_InvalidDatesRejected ==
    [][\A c \in Owners, sid \in ServiceIdInputs, pid \in PetIdInputs,
          st \in StartInputs, d \in DurationInputs :
            (createBooking(c, sid, pid, st, st + d) /\ (st + d <= st \/ st < now))
                => /\ last' = "ValidationError"
                   /\ StatusCode(last') = 400
                   /\ bookings' = bookings]_vars

-----------------------------------------------------------------------------
(* TotalsSpec: one booking taken through its life while the sitters update  *)
(* their services with bodies of every shape.                               *)

TotalsNext ==
    \/ /\ Len(bookings) < MaxBookings
       /\ \E c \in Users, sid \in ServiceIds, pid \in PetIds :
               createBooking(c, sid, pid, 2 * MsPerDay, 3 * MsPerDay)
       /\ UNCHANGED <<edits, actor, inflight>>
    \/ /\ \E c \in Users, bid \in BookingIdInputs, st \in Statuses :
               updateBookingStatus(c, bid, st, NoNotes)
       /\ UNCHANGED <<edits, actor, inflight>>
    \/ /\ \E c \in Users, bid \in BookingIdInputs, isCheckIn \in BOOLEAN :
               checkInOut(c, bid, isCheckIn)
       /\ UNCHANGED <<edits, actor, inflight>>
    \/ \E c \in Users, sid \in ServiceIds, body \in CounterServiceBodies :
           Edit(updateService(c, sid, body))

TotalsSpec == Init /\ [][TotalsNext]_vars

\* C14: a successful status update to confirmed adds exactly 1 to the
\* totalBookings of the booking's service, and nothing else changes any
\* service's totalBookings.
C14_TotalBookingsFrame ==
    [][\A sid \in ServiceIds :
          IF /\ last' = "StatusUpdated"
             /\ \E i \in 1..Len(bookings) :
                   /\ bookings[i].service = sid
                   /\ bookings[i].status # "confirmed"
                   /\ bookings'[i].status = "confirmed"
          THEN services'[sid].totalBookings = services[sid].totalBookings + 1
          ELSE services'[sid].totalBookings = services[sid].totalBookings]_vars

-----------------------------------------------------------------------------
(* Authentication: authMiddleware.protect in front of every protected route *)

\* What the Authorization header of a request can hold: nothing, a token
\* that does not verify, or a token signed for a user, expired or not. A
\* token is valid from the account's registration on, whatever happens to
\* the account afterwards.
Credentials ==
    {[kind |-> "none", user |-> Null], [kind |-> "malformed", user |-> Null]}
        \cup [kind : {"expired", "valid"}, user : Users]

\* protect without the check of the account's isActive flag
protectOutcome_anyAccount(cred) ==
    CASE cred.kind = "none" -> "NotLoggedIn"
      [] cred.kind = "malformed" -> "InvalidToken"
      [] cred.kind = "expired" -> "TokenExpired"
      [] OTHER -> IF cred.user \notin DOMAIN users THEN "UserGone" ELSE "ok"

\* protect: the 401 it answers with, or "ok" when it calls next()
protectOutcome(cred) ==
    CASE cred.kind = "none" -> "NotLoggedIn"
      [] cred.kind = "malformed" -> "InvalidToken"
      [] cred.kind = "expired" -> "TokenExpired"
      [] OTHER -> IF cred.user \notin DOMAIN users THEN "UserGone"
                  ELSE IF ~users[cred.user].isActive THEN "DeactivatedAccount"
                  ELSE "ok"

\* a protected route: the handler A runs as req.user only after protect passed
Protected(cred, A) ==
    IF protectOutcome(cred) = "ok"
      THEN A /\ actor' = cred.user
      ELSE /\ Respond(protectOutcome(cred))
           /\ actor' = Null
           /\ UNCHANGED <<now, users, services, pets, bookings>>

\* DELETE /api/auth/me: authController.deleteMe
deleteMe(caller) ==
    /\ users' = [users EXCEPT ![caller].isActive = FALSE]
    /\ Respond("AccountDeactivated")
    /\ UNCHANGED <<now, services, pets, bookings>>

-----------------------------------------------------------------------------
(* AuthSpec: requests with every kind of credential, while accounts are     *)
(* being deactivated.                                                       *)

AuthNext ==
    \/ /\ \E cred \in Credentials : Protected(cred, deleteMe(cred.user))
       /\ UNCHANGED <<edits, inflight>>
    \/ /\ \E cred \in Credentials, pid \in PetIds : Protected(cred, deletePet(cred.user, pid))
       /\ UNCHANGED <<edits, inflight>>
    \/ /\ Len(bookings) < MaxBookings
       /\ \E cred \in Credentials, sid \in ServiceIds, pid \in PetIds :
             Protected(cred, createBooking(cred.user, sid, pid, 2 * MsPerDay, 3 * MsPerDay))
       /\ UNCHANGED <<edits, inflight>>
    \/ /\ \E cred \in Credentials, bid \in BookingIdInputs, st \in Statuses :
             Protected(cred, updateBookingStatus(cred.user, bid, st, NoNotes))
       /\ UNCHANGED <<edits, inflight>>

AuthSpec == Init /\ [][AuthNext]_vars

\* the responses of a request that was not authenticated
Unauthenticated == {"NotLoggedIn", "InvalidToken", "TokenExpired", "UserGone", "DeactivatedAccount"}

\* C15: a request without credential, with a malformed or expired one, or
\* with the credential of a deactivated account is answered 401 and changes
\* no collection; a collection changes only in a request whose credential
\* resolved to an account that was active when the request came in.
C15_ProtectedNeedsActiveIdentity ==
    /\ [](\A cred \in Credentials :
            (cred.kind # "valid" \/ ~users[cred.user].isActive)
                => /\ protectOutcome(cred) \in Unauthenticated
                   /\ StatusCode(protectOutcome(cred)) = 401)
    /\ [][/\ last' \in Unauthenticated
               => UNCHANGED <<users, services, pets, bookings>>
          /\ <<users, services, pets, bookings>>' # <<users, services, pets, bookings>>
               => /\ actor' \in Users
                  /\ users[actor'].isActive]_vars

\* a deactivated account's token, issued while it was active, was refused
C15_Witness ==
    /\ last = "DeactivatedAccount"
    /\ actor = Null
    /\ \E u \in Users : ~users[u].isActive

-----------------------------------------------------------------------------
(* petController behind router.use(protect), router.use(restrictTo('owner')) *)
(* and serviceController.getMyServices behind restrictTo('sitter')           *)

\* GET /api/pets/:id
getPetOutcome(caller, pid) ==
    IF Role(caller) # "owner" THEN "Forbidden"
    ELSE IF ~petFound(caller, pid) THEN "NoPetFound"
    ELSE "PetFound"

getPet(caller, pid) ==
    /\ last' = getPetOutcome(caller, pid)
    /\ result' = IF getPetOutcome(caller, pid) = "PetFound" THEN {pid} ELSE NoResult
    /\ UNCHANGED <<now, users, services, pets, bookings>>

\* GET /api/pets: Pet.find({ owner: req.user.id, isActive: true })
getPets(caller) ==
    /\ IF Role(caller) # "owner" THEN Respond("Forbidden")
       ELSE /\ last' = "PetsListed"
            /\ result' = {pid \in PetIds : pets[pid].owner = caller /\ pets[pid].isActive}
    /\ UNCHANGED <<now, users, services, pets, bookings>>

\* GET /api/services/my/services: Service.find({ sitter: req.user.id })
getMyServices(caller) ==
    /\ IF Role(caller) # "sitter" THEN Respond("Forbidden")
       ELSE /\ last' = "ServicesListed"
            /\ result' = {sid \in ServiceIds : services[sid].sitter = caller}
    /\ UNCHANGED <<now, users, services, pets, bookings>>

\* bodies of PUT /api/pets/:id: a name, the uploaded files and replacePhotos
PetBodies == [name : {"Rex", "Max"}, files : {<<>>, <<"n.jpg">>}, replacePhotos : BOOLEAN]

updatePetOutcome(caller, pid) ==
    IF Role(caller) # "owner" THEN "Forbidden"
    ELSE IF ~petFound(caller, pid) THEN "NoPetFound"
    ELSE "PetUpdated"

\* req.body.photos as updatePet builds it from the uploaded files
photosAfterUpload(pet, body) ==
    IF body.files = <<>> THEN pet.photos
    ELSE IF body.replacePhotos THEN body.files
    ELSE pet.photos \o body.files

updatePet(caller, pid, body) ==
    /\ last' = updatePetOutcome(caller, pid)
    /\ IF updatePetOutcome(caller, pid) = "PetUpdated"
         THEN /\ pets' = [pets EXCEPT ![pid].name = body.name,
                                      ![pid].photos = photosAfterUpload(pets[pid], body)]
              /\ result' = {pid}
         ELSE UNCHANGED pets /\ result' = NoResult
    /\ UNCHANGED <<now, users, services, bookings>>

\* The :photoIndex route parameter is a string, kept here as its characters.
Digits == {"0", "1", "2", "3", "4", "5", "6", "7", "8", "9"}

DigitValue(ch) ==
    CASE ch = "0" -> 0 [] ch = "1" -> 1 [] ch = "2" -> 2 [] ch = "3" -> 3 [] ch = "4" -> 4
      [] ch = "5" -> 5 [] ch = "6" -> 6 [] ch = "7" -> 7 [] ch = "8" -> 8 [] OTHER -> 9

\* the longest prefix of str made of digits
RECURSIVE DigitPrefix(_)
DigitPrefix(str) ==
    IF str = <<>> \/ Head(str) \notin Digits THEN <<>>
    ELSE <<Head(str)>> \o DigitPrefix(Tail(str))

RECURSIVE DecimalValue(_)
DecimalValue(digits) ==
    IF digits = <<>> THEN 0
    ELSE DecimalValue(SubSeq(digits, 1, Len(digits) - 1)) * 10 + DigitValue(digits[Len(digits)])

\* parseInt(str): an optional sign and the digits that follow it, whatever
\* comes after them; NaN when there is no digit there
parseInt(str) ==
    LET signed == str # <<>> /\ Head(str) \in {"-", "+"}
        digits == DigitPrefix(IF signed THEN Tail(str) ELSE str)
    IN IF digits = <<>> THEN [nan |-> TRUE, value |-> 0]
       ELSE [nan |-> FALSE,
             value |-> IF signed /\ Head(str) = "-" THEN 0 - DecimalValue(digits)
                       ELSE DecimalValue(digits)]

\* photoIndex < 0 || photoIndex >= pet.photos.length: false for NaN
indexOutOfRange(photoIndex, length) ==
    ~photoIndex.nan /\ (photoIndex.value < 0 \/ photoIndex.value >= length)

\* DELETE /api/pets/:id/photos/:photoIndex
deletePhotoOutcome(caller, pid, str) ==
    IF Role(caller) # "owner" THEN "Forbidden"
    ELSE IF ~petFound(caller, pid) THEN "NoPetFound"
    ELSE IF indexOutOfRange(parseInt(str), Len(pets[pid].photos)) THEN "InvalidPhotoIndex"
    ELSE IF parseInt(str).nan THEN "ServerError"
    ELSE "PhotoDeleted"

\* pet.photos.splice(photoIndex, 1) for an index in range (counted from 0)
splice(photos, index) ==
    SubSeq(photos, 1, index) \o SubSeq(photos, index + 2, Len(photos))

deletePhoto(caller, pid, str) ==
    /\ last' = deletePhotoOutcome(caller, pid, str)
    /\ IF deletePhotoOutcome(caller, pid, str) = "PhotoDeleted"
         THEN /\ pets' = [pets EXCEPT ![pid].photos = splice(@, parseInt(str).value)]
              /\ result' = {pid}
         ELSE UNCHANGED pets /\ result' = NoResult
    /\ UNCHANGED <<now, users, services, bookings>>

-----------------------------------------------------------------------------
(* ResourceSpec: owners and sitters reading, updating and soft-deleting     *)
(* pets and services, each request made by any of the accounts. The bounds  *)
(* cap the number of requests that change a document and the photos a pet   *)
(* can hold.                                                                *)

MaxResourceEdits == 2
MaxPhotos == 3

\* :photoIndex values: in range, too large, negative, not a number, and a
\* number followed by other characters
PhotoIndexInputs ==
    {<<"0">>, <<"1">>, <<"3">>, <<"-", "1">>, <<"a", "b", "c">>, <<"1", "a", "b", "c">>}

PhotosHaveRoom(pid, body) ==
    pid \in PetIds => Len(pets[pid].photos) + Len(body.files) <= MaxPhotos

\* the request A made with the credential of account c
RequestBy(c, A) ==
    /\ A
    /\ actor' = c
    /\ edits' = IF services' # services \/ pets' # pets THEN edits + 1 ELSE edits
    /\ edits' <= MaxResourceEdits
    /\ UNCHANGED inflight

ResourceNext ==
    \/ \E c \in Users, pid \in PetIdInputs : RequestBy(c, getPet(c, pid))
    \/ \E c \in Users : RequestBy(c, getPets(c))
    \/ \E c \in Users : RequestBy(c, getMyServices(c))
    \/ \E c \in Users, pid \in PetIdInputs, body \in PetBodies :
           PhotosHaveRoom(pid, body) /\ RequestBy(c, updatePet(c, pid, body))
    \/ \E c \in Users, pid \in PetIdInputs, str \in PhotoIndexInputs :
           RequestBy(c, deletePhoto(c, pid, str))
    \/ \E c \in Users, pid \in PetIdInputs : RequestBy(c, deletePet(c, pid))
    \/ \E c \in Users, sid \in ServiceIdInputs, body \in PlainServiceBodies :
           RequestBy(c, updateService(c, sid, body))
    \/ \E c \in Users, sid \in ServiceIdInputs : RequestBy(c, deleteService(c, sid))

ResourceSpec == Init /\ [][ResourceNext]_vars

-----------------------------------------------------------------------------
(* OwnershipSpec: every request that can change a pet or a service, the     *)
(* confirmation of a booking included, made by any of the accounts.         *)

OwnershipNext ==
    \/ \E c \in Users, pid \in PetIdInputs, body \in PetBodies :
           PhotosHaveRoom(pid, body) /\ RequestBy(c, updatePet(c, pid, body))
    \/ \E c \in Users, pid \in PetIdInputs, str \in PhotoIndexInputs :
           RequestBy(c, deletePhoto(c, pid, str))
    \/ \E c \in Users, pid \in PetIdInputs : RequestBy(c, deletePet(c, pid))
    \/ \E c \in Users, sid \in ServiceIdInputs, body \in PlainServiceBodies :
           RequestBy(c, updateService(c, sid, body))
    \/ \E c \in Users, sid \in ServiceIdInputs : RequestBy(c, deleteService(c, sid))
    \/ /\ Len(bookings) < MaxBookings
       /\ \E c \in Users, sid \in ServiceIds, pid \in PetIds :
             RequestBy(c, createBooking(c, sid, pid, 2 * MsPerDay, 3 * MsPerDay))
    \/ \E c \in Users, bid \in BookingIdInputs, st \in Statuses :
           RequestBy(c, updateBookingStatus(c, bid, st, NoNotes))

OwnershipSpec == Init /\ [][OwnershipNext]_vars

-----------------------------------------------------------------------------
(* Claims about pets, services and their owners                             *)

C17_OnlyOwnerChanges ==
    [][/\ \A pid \in PetIds :
             pets'[pid] # pets[pid]
                 => actor' = pets[pid].owner /\ Role(actor') = "owner"
       /\ \A sid \in ServiceIds :
             services'[sid] # services[sid]
                 => actor' = services[sid].sitter /\ Role(actor') = "sitter"]_vars

\* the sitter of a service has confirmed a booking of it, after an owner
\* changed a pet
C17_Witness ==
    /\ \E sid \in ServiceIds : services[sid].totalBookings = 1
    /\ \E pid \in PetIds : pets[pid] # InitPets[pid]
    /\ last = "StatusUpdated"
    /\ Role(actor) = "sitter"

\* C18: when the owner soft-deletes a pet a second time, right after having
\* deleted it, the call succeeds again and changes nothing.
C18_SoftDeleteIdempotent ==
    [][\A pid \in PetIds :
          (/\ last = "PetDeleted"
           /\ actor = pets[pid].owner
           /\ ~pets[pid].isActive
           /\ actor' = pets[pid].owner
           /\ deletePet(pets[pid].owner, pid))
              => /\ last' = "PetDeleted"
                 /\ StatusCode(last') = 200
                 /\ pets' = pets]_vars

\* C19: getPets answers with exactly the caller's active pets, and
\* getMyServices with exactly the calling sitter's active services.
C19_ListsOwnActive ==
    [][/\ last' = "PetsListed"
            => result' = {pid \in PetIds : pets[pid].owner = actor' /\ pets[pid].isActive}
       /\ last' = "ServicesListed"
            => result' = {sid \in ServiceIds :
                             services[sid].sitter = actor' /\ services[sid].isActive}]_vars

\* the characters are an optionally signed decimal numeral
IsNumeral(str) ==
    LET body == IF str # <<>> /\ Head(str) \in {"-", "+"} THEN Tail(str) ELSE str
    IN body # <<>> /\ \A i \in 1..Len(body) : body[i] \in Digits

\* the list without its entry at a position counted from 0
WithoutEntry(photos, k) ==
    [i \in 1..(Len(photos) - 1) |-> IF i <= k THEN photos[i] ELSE photos[i + 1]]

\* C20: deleting a photo of one's own active pet succeeds exactly when the
\* index is a number with 0 <= index < len(photos), and then removes that
\* one entry and keeps the others in order; any other index, a negative,
\* too large or non-numeric one, fails with the index error (400) and
\* leaves the photos as they were.
C20_DeletePhotoAt ==
    [][\A pid \in PetIds, str \in PhotoIndexInputs :
          (/\ pets[pid].isActive
           /\ actor' = pets[pid].owner
           /\ deletePhoto(pets[pid].owner, pid, str))
              => IF /\ IsNumeral(str)
                    /\ parseInt(str).value >= 0
                    /\ parseInt(str).value < Len(pets[pid].photos)
                   THEN /\ last' = "PhotoDeleted"
                        /\ pets'[pid].photos = WithoutEntry(pets[pid].photos, parseInt(str).value)
                   ELSE /\ last' = "InvalidPhotoIndex"
                        /\ StatusCode(last') = 400
                        /\ pets' = pets]_vars

-----------------------------------------------------------------------------
(* Claims about check-in, check-out and the update log                      *)

\* C21: a check-in is accepted only from the booking's sitter on a booking
\* with no check-in recorded, and then records it and sets the status to
\* in_progress; a check-out is accepted only from the booking's sitter on a
\* booking with a check-in and no check-out recorded, and then records it and
\* sets the status to completed; so a booking with a check-out record has a
\* check-in record, and neither record is ever written a second time.
C21_CheckInOutOnce ==
    /\ [](\A c \in Users, bid \in BookingIdInputs :
            /\ checkInOutOutcome(c, bid, TRUE) = "CheckedIn"
                 => /\ bid \in 1..Len(bookings)
                    /\ c = bookings[bid].sitter
                    /\ bookings[bid].checkIn.time = Unset
                    /\ checked(bookings[bid], TRUE).checkIn.time = now
                    /\ checked(bookings[bid], TRUE).status = "in_progress"
            /\ checkInOutOutcome(c, bid, FALSE) = "CheckedOut"
                 => /\ bid \in 1..Len(bookings)
                    /\ c = bookings[bid].sitter
                    /\ bookings[bid].checkIn.time # Unset
                    /\ bookings[bid].checkOut.time = Unset
                    /\ checked(bookings[bid], FALSE).checkOut.time = now
                    /\ checked(bookings[bid], FALSE).status = "completed")
    /\ [](\A i \in 1..Len(bookings) :
            bookings[i].checkOut.time # Unset => bookings[i].checkIn.time # Unset)
    /\ [][\A i \in 1..Len(bookings) :
            /\ bookings'[i].checkIn # bookings[i].checkIn
                 => /\ bookings[i].checkIn.time = Unset
                    /\ bookings'[i].checkIn.time = now
                    /\ bookings'[i].status = "in_progress"
                    /\ last' = "CheckedIn"
            /\ bookings'[i].checkOut # bookings[i].checkOut
                 => /\ bookings[i].checkOut.time = Unset
                    /\ bookings[i].checkIn.time # Unset
                    /\ bookings'[i].checkOut.time = now
                    /\ bookings'[i].status = "completed"
                    /\ last' = "CheckedOut"]_vars

\* a second check-out was refused on a booking checked in one day and out the next
C21_Witness ==
    /\ last = "AlreadyCheckedOut"
    /\ \E i \in 1..Len(bookings) :
          /\ bookings[i].status = "completed"
          /\ bookings[i].checkIn.time # Unset
          /\ bookings[i].checkOut.time > bookings[i].checkIn.time

-----------------------------------------------------------------------------
(* LogSpec: one booking taken through its life on two days, with its sitter *)
(* and everybody else posting updates in every status.                      *)

MaxLogEntries == 2

LogNext ==
    \/ /\ Len(bookings) < MaxBookings
       /\ \E c \in Users, sid \in ServiceIds, pid \in PetIds :
               createBooking(c, sid, pid, 3 * MsPerDay, 4 * MsPerDay)
       /\ UNCHANGED <<edits, actor, inflight>>
    \/ /\ \E c \in Users, bid \in BookingIdInputs, st \in Statuses :
               updateBookingStatus(c, bid, st, NoNotes)
       /\ UNCHANGED <<edits, actor, inflight>>
    \/ /\ \E c \in Users, bid \in BookingIdInputs, isCheckIn \in BOOLEAN :
               checkInOut(c, bid, isCheckIn)
       /\ UNCHANGED <<edits, actor, inflight>>
    \/ /\ \E c \in Users, bid \in BookingIdInputs :
               /\ addBookingUpdate(c, bid)
               /\ bid \in 1..Len(bookings) => Len(bookings'[bid].updates) <= MaxLogEntries
       /\ UNCHANGED <<edits, actor, inflight>>
    \/ /\ ClockHasRoom
       /\ Tick
       /\ UNCHANGED <<edits, actor, inflight>>

LogSpec == Init /\ [][LogNext]_vars

\* the caller is the sitter of booking bid, which is in progress
MayPostUpdate(c, bid) ==
    /\ bid \in 1..Len(bookings)
    /\ c = bookings[bid].sitter
    /\ bookings[bid].status = "in_progress"

\* C22: an update is appended to a booking's log only on a request of the
\* booking's sitter while the booking is in_progress; the request of anybody
\* else, or in any other status, is refused and leaves the log as it was;
\* and every step keeps the entries a log already has, in their order.
C22_UpdateLogAppendOnly ==
    /\ [](\A c \in Users, bid \in BookingIdInputs :
            IF MayPostUpdate(c, bid)
              THEN addUpdateOutcome(c, bid) = "UpdateAdded"
              ELSE addUpdateOutcome(c, bid) \in {"Forbidden", "NoActiveBookingFound"})
    /\ [][/\ RefusalChangesNothing
          /\ \A i \in 1..Len(bookings) :
                /\ Len(bookings'[i].updates) >= Len(bookings[i].updates)
                /\ SubSeq(bookings'[i].updates, 1, Len(bookings[i].updates)) = bookings[i].updates
                /\ bookings'[i].updates # bookings[i].updates
                     => /\ last' = "UpdateAdded"
                        /\ bookings[i].status = "in_progress"
                        /\ Len(bookings'[i].updates) = Len(bookings[i].updates) + 1
                        /\ bookings'[i].updates[Len(bookings'[i].updates)] =
                              [time |-> now, author |-> bookings[i].sitter]]_vars

\* the sitter posted on two days, checked out, and was refused a third update
C22_Witness ==
    /\ last = "NoActiveBookingFound"
    /\ \E i \in 1..Len(bookings) :
          /\ bookings[i].status = "completed"
          /\ Len(bookings[i].updates) = 2
          /\ bookings[i].updates[1].time < bookings[i].updates[2].time

-----------------------------------------------------------------------------
(* FailureSpec: two bookings and every booking request, with inputs that    *)
(* run into each of the refusals: wrong role, bad dates, missing service,   *)
(* foreign pet, unsupported species, taken slot, closed cancellation        *)
(* window, transition off the table, repeated check-in or check-out.        *)

FailureStarts == {0, 2 * MsPerDay}
FailureDurations == {0, MsPerDay}

FailureNext ==
    \/ /\ Len(bookings) < MaxSlotBookings
       /\ \E c \in Users, sid \in ServiceIdInputs, pid \in PetIdInputs,
             st \in FailureStarts, d \in FailureDurations :
               createBooking(c, sid, pid, st, st + d)
       /\ UNCHANGED <<edits, actor, inflight>>
    \/ /\ \E c \in Users, bid \in SlotBookingIdInputs, st \in Statuses :
               updateBookingStatus(c, bid, st, NoNotes)
       /\ UNCHANGED <<edits, actor, inflight>>
    \/ /\ \E c \in Users, bid \in SlotBookingIdInputs, isCheckIn \in BOOLEAN :
               checkInOut(c, bid, isCheckIn)
       /\ UNCHANGED <<edits, actor, inflight>>
    \/ /\ \E c \in Users, bid \in SlotBookingIdInputs :
               /\ addBookingUpdate(c, bid)
               /\ bid \in 1..Len(bookings) => Len(bookings'[bid].updates) <= MaxUpdates
       /\ UNCHANGED <<edits, actor, inflight>>

FailureSpec == Init /\ [][FailureNext]_vars

\* the responses with which the booking requests fail
BookingFailures ==
    {"Forbidden", "ValidationError", "ServiceNotAvailable", "PetNotYours",
     "UnsupportedPetType", "SlotUnavailable", "ServerError", "NoBookingFound",
     "InvalidTransition", "CannotCancel", "AlreadyCheckedIn", "NotCheckedIn",
     "AlreadyCheckedOut", "NoActiveBookingFound"}

BookingSuccesses == {"Created", "StatusUpdated", "CheckedIn", "CheckedOut", "UpdateAdded"}

\* C23: a booking request (create, status update, log update, check-in,
\* check-out) that is answered with a failure leaves every booking and every
\* service's totalBookings as they were; bookings and counters change only
\* in a request that is answered with success.
C23_FailureChangesNothing ==
    /\ [](\A c \in Users, bid \in SlotBookingIdInputs :
            /\ \A sid \in ServiceIdInputs, pid \in PetIdInputs,
                  st \in FailureStarts, d \in FailureDurations :
                    createBookingOutcome(c, sid, pid, st, st + d) \in BookingFailures \cup {"Created"}
            /\ \A st \in Statuses :
                    updateStatusOutcome(c, bid, st) \in BookingFailures \cup {"StatusUpdated"}
            /\ \A isCheckIn \in BOOLEAN :
                    checkInOutOutcome(c, bid, isCheckIn) \in BookingFailures \cup {"CheckedIn", "CheckedOut"}
            /\ addUpdateOutcome(c, bid) \in BookingFailures \cup {"UpdateAdded"})
    /\ [][/\ last' \in BookingFailures
               => /\ bookings' = bookings
                  /\ \A sid \in ServiceIds :
                        services'[sid].totalBookings = services[sid].totalBookings
          /\ (bookings' # bookings \/ services' # services)
               => /\ last' \in BookingSuccesses
                  /\ StatusCode(last') \in {200, 201}
          /\ StatusCode(last') >= 400 => last' \in BookingFailures]_vars

\* a second check-in was refused while another booking of the service stands confirmed
C23_Witness ==
    /\ last = "AlreadyCheckedIn"
    /\ Len(bookings) = 2
    /\ \E sid \in ServiceIds : services[sid].totalBookings = 1
    /\ \E i \in 1..Len(bookings) : bookings[i].status = "in_progress"

-----------------------------------------------------------------------------
(* Requests served concurrently. Node runs one handler at a time but hands  *)
(* control to other requests at every await, so a handler is a sequence of  *)
(* steps, one per database call it awaits, and the steps of the requests in *)
(* the slots interleave. What a handler has read so far stays with it.      *)

\* the slots that serve a request
Busy == {r \in Slots : inflight[r].op # "idle"}

\* createBooking up to and including await Booking.findConflicts(...): the
\* lookups and the conflict check, after which the handler holds bookingData
createBookingChecks(r, caller, sid, pid, start, end) ==
    /\ inflight[r].op = "idle"
    /\ IF createBookingOutcome(caller, sid, pid, start, end) \in {"Created", "ServerError"}
         THEN /\ inflight' = [inflight EXCEPT ![r] =
                                 [op |-> "createBooking",
                                  doc |-> newBooking(caller, services[sid], sid, pid, start, end)]]
              /\ UNCHANGED <<last, result>>
         ELSE /\ Respond(createBookingOutcome(caller, sid, pid, start, end))
              /\ UNCHANGED inflight
    /\ UNCHANGED <<now, users, services, pets, bookings>>

\* a write that looks for conflicts once more before it inserts
createBookingWrite_rechecks(r) ==
    /\ inflight[r].op = "createBooking"
    /\ IF findConflicts(inflight[r].doc.sitter, inflight[r].doc.startDate,
                        inflight[r].doc.endDate) # {}
         THEN UNCHANGED bookings /\ Respond("SlotUnavailable")
         ELSE IF preSave(TRUE, inflight[r].doc.startDate, inflight[r].doc.endDate) = "ok"
                THEN bookings' = Append(bookings, inflight[r].doc) /\ Respond("Created")
                ELSE UNCHANGED bookings /\ Respond("ServerError")
    /\ inflight' = [inflight EXCEPT ![r] = Idle]
    /\ UNCHANGED <<now, users, services, pets>>

\* createBooking from await Booking.create(bookingData) on: the pre-save
\* hook, the insert and the response
createBookingWrite(r) ==
    /\ inflight[r].op = "createBooking"
    /\ IF preSave(TRUE, inflight[r].doc.startDate, inflight[r].doc.endDate) = "ok"
         THEN bookings' = Append(bookings, inflight[r].doc) /\ Respond("Created")
         ELSE UNCHANGED bookings /\ Respond("ServerError")
    /\ inflight' = [inflight EXCEPT ![r] = Idle]
    /\ UNCHANGED <<now, users, services, pets>>

-----------------------------------------------------------------------------
(* RaceSpec: booking requests served two at a time                          *)

RaceNext ==
    \/ /\ Len(bookings) + Cardinality(Busy) < MaxSlotBookings
       /\ \E r \in Slots, c \in Users, sid \in ServiceIds, pid \in PetIds,
             st \in StartInputs, d \in DurationInputs :
               createBookingChecks(r, c, sid, pid, st, st + d)
       /\ UNCHANGED <<edits, actor>>
    \/ /\ \E r \in Slots : createBookingWrite(r)
       /\ UNCHANGED <<edits, actor>>

RaceSpec == Init /\ [][RaceNext]_vars

\* C24: the conflict check and the insert of a booking request are separate
\* steps: a request that found no conflict when it checked inserts its
\* booking whatever has been inserted since, so two requests for overlapping
\* intervals of one sitter that both check before either inserts are both
\* persisted.
C24_RaceWindow ==
    [][\A r \in Slots :
          /\ (inflight[r].op = "idle" /\ inflight'[r].op = "createBooking")
                => /\ findConflicts(inflight'[r].doc.sitter, inflight'[r].doc.startDate,
                                    inflight'[r].doc.endDate) = {}
                   /\ bookings' = bookings
          /\ (/\ inflight[r].op = "createBooking"
              /\ inflight'[r].op = "idle"
              /\ inflight[r].doc.endDate > inflight[r].doc.startDate)
                => /\ bookings' = Append(bookings, inflight[r].doc)
                   /\ last' = "Created"]_vars

\* two bookings of one sitter, both in a blocking status, for overlapping
\* intervals, the second inserted while no request is left in service
C24_Witness ==
    /\ last = "Created"
    /\ Busy = {}
    /\ Len(bookings) = 2
    /\ bookings[1].sitter = bookings[2].sitter
    /\ bookings[1].status \in {"pending", "confirmed", "in_progress"}
    /\ bookings[2].status \in {"pending", "confirmed", "in_progress"}
    /\ bookings[1].startDate <= bookings[2].endDate
    /\ bookings[1].endDate >= bookings[2].startDate

-----------------------------------------------------------------------------
(* POST /api/auth/register: validate(schemas.register),                     *)
(* authController.register                                                  *)

UpperCaseLetters ==
    <<"A", "B", "C", "D", "E", "F", "G", "H", "I", "J", "K", "L", "M",
      "N", "O", "P", "Q", "R", "S", "T", "U", "V", "W", "X", "Y", "Z">>

LowerCaseLetters ==
    <<"a", "b", "c", "d", "e", "f", "g", "h", "i", "j", "k", "l", "m",
      "n", "o", "p", "q", "r", "s", "t", "u", "v", "w", "x", "y", "z">>

toLowerCaseChar(ch) ==
    IF \E i \in 1..Len(UpperCaseLetters) : UpperCaseLetters[i] = ch
      THEN LowerCaseLetters[CHOOSE i \in 1..Len(UpperCaseLetters) : UpperCaseLetters[i] = ch]
      ELSE ch

\* the schema's lowercase: true setter on email
toLowerCase(str) == [i \in 1..Len(str) |-> toLowerCaseChar(str[i])]

\* the ids that new accounts get, in this order
NewUserIds == <<"n1", "n2", "n3">>

MaxRegistrations == 2

Registered == DOMAIN users \ Users

\* User.findOne({ email }) finds a document. The filter is compared as it
\* was sent, or after the schema's setter has lowered its case, depending on
\* the Mongoose version, which is not part of this repository: castsFilter
\* says which.
existingUser(email, castsFilter) ==
    \E u \in DOMAIN users :
        users[u].email = IF castsFilter THEN toLowerCase(email) ELSE email

\* the unique index on email holds the stored value of some document
duplicateKey(email) == \E u \in DOMAIN users : users[u].email = toLowerCase(email)

\* register up to and including await User.findOne({ email })
registerCheck(r, email, castsFilter) ==
    /\ inflight[r].op = "idle"
    /\ IF existingUser(email, castsFilter)
         THEN Respond("EmailTaken") /\ UNCHANGED inflight
         ELSE /\ inflight' = [inflight EXCEPT ![r] = [op |-> "register", email |-> email]]
              /\ UNCHANGED <<last, result>>
    /\ UNCHANGED <<now, users, services, pets, bookings>>

\* the collection with one more account
withUser(id, email) ==
    [u \in DOMAIN users \cup {id} |->
        IF u = id THEN [isActive |-> TRUE, email |-> toLowerCase(email)] ELSE users[u]]

\* a create on a collection without the unique index
registerCreate_noUniqueIndex(r) ==
    /\ inflight[r].op = "register"
    /\ users' = withUser(NewUserIds[Cardinality(Registered) + 1], inflight[r].email)
    /\ Respond("Registered")
    /\ inflight' = [inflight EXCEPT ![r] = Idle]
    /\ UNCHANGED <<now, services, pets, bookings>>

\* register from await User.create(...) on: the insert, refused by the
\* unique index with error code 11000 (400 in errorMiddleware), and the response
registerCreate(r) ==
    /\ inflight[r].op = "register"
    /\ IF duplicateKey(inflight[r].email)
         THEN UNCHANGED users /\ Respond("DuplicateField")
         ELSE /\ users' = withUser(NewUserIds[Cardinality(Registered) + 1], inflight[r].email)
              /\ Respond("Registered")
    /\ inflight' = [inflight EXCEPT ![r] = Idle]
    /\ UNCHANGED <<now, services, pets, bookings>>

-----------------------------------------------------------------------------
(* RegisterSpec: registrations served two at a time, for addresses that     *)
(* differ in case only, that are taken and that are free, while accounts    *)
(* are being deactivated.                                                   *)

EmailInputs ==
    {<<"a", "@", "x", ".", "i", "o">>, <<"A", "@", "x", ".", "i", "o">>,
     <<"b", "@", "x", ".", "i", "o">>, <<"B", "@", "X", ".", "I", "O">>}

RegisterNext ==
    \/ /\ Cardinality(Registered) + Cardinality(Busy) < MaxRegistrations
       /\ \E r \in Slots, email \in EmailInputs, castsFilter \in BOOLEAN :
               registerCheck(r, email, castsFilter)
       /\ UNCHANGED <<edits, actor>>
    \/ /\ \E r \in Slots : registerCreate(r)
       /\ UNCHANGED <<edits, actor>>
    \/ /\ \E c \in Users : deleteMe(c)
       /\ UNCHANGED <<edits, actor, inflight>>

RegisterSpec == Init /\ [][RegisterNext]_vars

\* two addresses are the same once letters of either case are taken as one
SameIgnoringCase(e, f) ==
    /\ Len(e) = Len(f)
    /\ \A i \in 1..Len(e) :
          \/ e[i] = f[i]
          \/ \E k \in 1..26 : {e[i], f[i]} = {UpperCaseLetters[k], LowerCaseLetters[k]}

\* C25: no two accounts have the same email, letters compared without
\* regard to case, also when two registrations for one address both pass
\* the existence check before either creates its account; a registration
\* for an address that an account already has is answered 400 and creates
\* no account.
C25_EmailUnique ==
    /\ [](\A u, v \in DOMAIN users :
            u # v => ~SameIgnoringCase(users[u].email, users[v].email))
    /\ [](\A e \in EmailInputs, castsFilter \in BOOLEAN :
            (existingUser(e, castsFilter) \/ duplicateKey(e))
                => \E u \in DOMAIN users : SameIgnoringCase(users[u].email, e))
    /\ [][/\ \A r \in Slots :
                (/\ inflight[r].op = "register"
                 /\ inflight'[r].op = "idle"
                 /\ \E u \in DOMAIN users : SameIgnoringCase(users[u].email, inflight[r].email))
                    => /\ DOMAIN users' = DOMAIN users
                       /\ last' = "DuplicateField"
                       /\ StatusCode(last') = 400
          /\ \A e \in EmailInputs :
                (/\ \E u \in DOMAIN users : SameIgnoringCase(users[u].email, e)
                 /\ \E r \in Slots, castsFilter \in BOOLEAN : registerCheck(r, e, castsFilter))
                    => /\ DOMAIN users' = DOMAIN users
                       /\ \/ last' = "EmailTaken" /\ StatusCode(last') = 400
                          \/ \E r \in Slots : inflight'[r].op = "register" /\ inflight[r].op = "idle"
          /\ last' \in {"EmailTaken", "DuplicateField"} => DOMAIN users' = DOMAIN users
          /\ DOMAIN users' # DOMAIN users => last' = "Registered"]_vars

\* of two registrations for one free address the second was refused by the index
C25_Witness ==
    /\ last = "DuplicateField"
    /\ Busy = {}
    /\ Cardinality(Registered) = 1
    /\ \E u \in Registered : users[u].email = <<"b", "@", "x", ".", "i", "o">>

-----------------------------------------------------------------------------
(* ReferenceSpec: one booking taken through its life while the sitters      *)
(* update their services with bodies that name a sitter.                    *)

ReferenceNext ==
    \/ /\ Len(bookings) < MaxBookings
       /\ \E c \in Users, sid \in ServiceIds, pid \in PetIds :
               createBooking(c, sid, pid, 3 * MsPerDay, 4 * MsPerDay)
       /\ UNCHANGED <<edits, actor, inflight>>
    \/ /\ \E c \in Users, bid \in BookingIdInputs, st \in Statuses :
               updateBookingStatus(c, bid, st, NoNotes)
       /\ UNCHANGED <<edits, actor, inflight>>
    \/ /\ \E c \in Users, bid \in BookingIdInputs, isCheckIn \in BOOLEAN :
               checkInOut(c, bid, isCheckIn)
       /\ UNCHANGED <<edits, actor, inflight>>
    \/ /\ \E c \in Users, bid \in BookingIdInputs :
               /\ addBookingUpdate(c, bid)
               /\ bid \in 1..Len(bookings) => Len(bookings'[bid].updates) <= MaxUpdates
       /\ UNCHANGED <<edits, actor, inflight>>
    \/ \E c \in Users, sid \in ServiceIds, body \in SitterServiceBodies :
           Edit(updateService(c, sid, body))

ReferenceSpec == Init /\ [][ReferenceNext]_vars

\* C26: no operation changes the owner, sitter, service or pet of a booking
\* once it is created, and the sitter of a booking is always the sitter of
\* the service it refers to (no service update changes a service's sitter).
C26_ReferencesFixed ==
    /\ [](\A i \in 1..Len(bookings) :
            bookings[i].sitter = services[bookings[i].service].sitter)
    /\ [][/\ \A i \in 1..Len(bookings) :
                /\ bookings'[i].owner = bookings[i].owner
                /\ bookings'[i].sitter = bookings[i].sitter
                /\ bookings'[i].service = bookings[i].service
                /\ bookings'[i].pet = bookings[i].pet
          /\ \A sid \in ServiceIds : services'[sid].sitter = services[sid].sitter]_vars

-----------------------------------------------------------------------------
(* Claims about cancellation records                                        *)

\* C27: a booking has a cancellation record exactly when its status is
\* cancelled: no step makes a booking cancelled without writing the record,
\* and no step moves a booking that has the record to another status.
C27_CancellationIffCancelled ==
    /\ [](\A i \in 1..Len(bookings) :
            bookings[i].cancellation.cancelledBy # Null <=> bookings[i].status = "cancelled")
    /\ [][\A i \in 1..Len(bookings) :
            /\ BecomesCancelled(i) => bookings'[i].cancellation.cancelledBy # Null
            /\ bookings[i].cancellation.cancelledBy # Null
                 => bookings'[i].status = bookings[i].status]_vars

-----------------------------------------------------------------------------
(* The clock inside a cancellation. A cancel request reads the clock three  *)
(* times: new Date() in canBeCancelled, new Date() for cancelledAt and      *)
(* new Date() in calculateRefund. The calls follow each other without an    *)
(* await, but the millisecond clock may advance between any two of them.    *)

\* milliseconds that may pass between two readings of the clock
ClockSteps == {0, 1}

\* calculateRefund with t as its reading of the clock
calculateRefundAt(b, t) ==
    IF (b.startDate - t) > 48 * MsPerHour THEN b.totalPrice
    ELSE IF (b.startDate - t) > 24 * MsPerHour THEN (b.totalPrice * 5) \div 10
    ELSE 0

\* the document as saved by a successful cancellation whose cancelledAt
\* was read at tAt and whose refund was calculated at tRefund
cancelledAt(b, caller, notes, tAt, tRefund) ==
    [b EXCEPT
        !.cancellation = [cancelledBy |-> caller, cancelledAt |-> tAt,
                          reason |-> notes, refundAmount |-> calculateRefundAt(b, tRefund)],
        !.status = "cancelled",
        !.ownerNotes = IF Role(caller) = "owner" /\ notes # NoNotes THEN notes ELSE @,
        !.sitterNotes = IF Role(caller) = "sitter" /\ notes # NoNotes THEN notes ELSE @]

\* updateBookingStatus to cancelled, the clock advancing by d1 between
\* canBeCancelled and cancelledAt and by d2 between cancelledAt and
\* calculateRefund
cancelBooking(caller, bid, notes, d1, d2) ==
    /\ Respond(updateStatusOutcome(caller, bid, "cancelled"))
    /\ IF updateStatusOutcome(caller, bid, "cancelled") = "StatusUpdated"
         THEN /\ bookings' = [bookings EXCEPT
                                 ![bid] = cancelledAt(@, caller, notes, now + d1, now + d1 + d2)]
              /\ now' = now + d1 + d2
         ELSE UNCHANGED <<bookings, now>>
    /\ UNCHANGED <<users, services, pets>>

-----------------------------------------------------------------------------
(* ClockSpec: bookings that start a millisecond past a whole number of days *)
(* from the first request, status requests of every kind, and cancel        *)
(* requests during which the clock may advance. The third service is        *)
(* offered for free: price has min 0 in the Joi schema and in the model.    *)

FreeServices == {"sv3"}

ClockInit ==
    /\ now = MsPerDay
    /\ users = InitUsers
    /\ services = [sid \in ServiceIds |->
                      IF sid \in FreeServices THEN [InitServices[sid] EXCEPT !.price = 0]
                                              ELSE InitServices[sid]]
    /\ pets = InitPets
    /\ bookings = <<>>
    /\ edits = 0
    /\ actor = Null
    /\ last = "none"
    /\ result = NoResult
    /\ inflight = NoRequests

ClockNext ==
    \/ /\ Len(bookings) < MaxBookings
       /\ \E c \in Users, sid \in ServiceIds, pid \in PetIds :
               createBooking(c, sid, pid, 3 * MsPerDay + 1, 4 * MsPerDay)
       /\ UNCHANGED <<edits, actor, inflight>>
    \/ /\ \E c \in Users, bid \in BookingIdInputs, st \in Statuses \ {"cancelled"} :
               updateBookingStatus(c, bid, st, NoNotes)
       /\ UNCHANGED <<edits, actor, inflight>>
    \/ /\ \E c \in Users, bid \in BookingIdInputs, n \in Notes, d1 \in ClockSteps, d2 \in ClockSteps :
               cancelBooking(c, bid, n, d1, d2)
       /\ UNCHANGED <<edits, actor, inflight>>
    \/ /\ ClockHasRoom
       /\ Tick
       /\ UNCHANGED <<edits, actor, inflight>>

ClockSpec == ClockInit /\ [][ClockNext]_vars

\* C28: every cancellation record names the booking's owner as cancelledBy
\* and has a refundAmount of the full totalPrice or of half of it, never 0.
C28_CancellationRecord ==
    \A i \in 1..Len(bookings) :
        bookings[i].cancellation.cancelledBy # Null
            => /\ bookings[i].cancellation.cancelledBy = bookings[i].owner
               /\ \/ bookings[i].cancellation.refundAmount = bookings[i].totalPrice
                  \/ bookings[i].cancellation.refundAmount * 2 = bookings[i].totalPrice
               /\ bookings[i].cancellation.refundAmount # 0

-----------------------------------------------------------------------------
(* updateBookingStatus in steps: await Booking.findOne(query), then the     *)
(* checks on the document it returned and await booking.save(), then        *)
(* await Service.findByIdAndUpdate(... $inc ...) and the response           *)

\* the role gate and the lookup: the refusal, or "ok"
statusLookupOutcome(caller, bid, status) ==
    IF Role(caller) = "owner" /\ status \notin ownerAllowedStatuses THEN "Forbidden"
    ELSE IF Role(caller) = "sitter" /\ status \notin sitterAllowedStatuses THEN "Forbidden"
    ELSE IF ~statusQueryMatches(caller, bid) THEN "NoBookingFound"
    ELSE "ok"

\* up to and including await Booking.findOne(query): the handler holds the
\* document as it was read
statusRead(r, caller, bid, status, notes) ==
    /\ inflight[r].op = "idle"
    /\ IF statusLookupOutcome(caller, bid, status) = "ok"
         THEN /\ inflight' = [inflight EXCEPT ![r] =
                                 [op |-> "updateBookingStatus", phase |-> "read",
                                  caller |-> caller, bid |-> bid, status |-> status,
                                  notes |-> notes, doc |-> bookings[bid]]]
              /\ UNCHANGED <<last, result>>
         ELSE /\ Respond(statusLookupOutcome(caller, bid, status))
              /\ UNCHANGED inflight
    /\ UNCHANGED <<now, users, services, pets, bookings>>

\* the checks on the document the handler holds: the refusal, or "ok"
statusCheckOutcome(doc, status) ==
    IF status \notin validTransitions[doc.status] THEN "InvalidTransition"
    ELSE IF status = "cancelled" /\ ~canBeCancelled(doc) THEN "CannotCancel"
    ELSE IF preSave(FALSE, doc.startDate, doc.endDate) # "ok" THEN "ServerError"
    ELSE "ok"

\* booking.save() of the document the handler holds: the paths it modified
\* are written to the stored document, whatever that holds by now
saved(stored, req) ==
    [stored EXCEPT
        !.status = req.status,
        !.cancellation = IF req.status = "cancelled"
                           THEN statusUpdated(req.doc, req.caller, req.status, req.notes).cancellation
                           ELSE @,
        !.ownerNotes = IF Role(req.caller) = "owner" /\ req.notes # NoNotes THEN req.notes ELSE @,
        !.sitterNotes = IF Role(req.caller) = "sitter" /\ req.notes # NoNotes THEN req.notes ELSE @]

\* from the lookup's return up to and including await booking.save()
statusSave(r) ==
    /\ inflight[r].op = "updateBookingStatus"
    /\ inflight[r].phase = "read"
    /\ IF statusCheckOutcome(inflight[r].doc, inflight[r].status) = "ok"
         THEN /\ bookings' = [bookings EXCEPT ![inflight[r].bid] = saved(@, inflight[r])]
              /\ inflight' = [inflight EXCEPT ![r].phase = "saved"]
              /\ UNCHANGED <<last, result>>
         ELSE /\ Respond(statusCheckOutcome(inflight[r].doc, inflight[r].status))
              /\ inflight' = [inflight EXCEPT ![r] = Idle]
              /\ UNCHANGED bookings
    /\ UNCHANGED <<now, users, services, pets>>

\* from the save's return on: the increment for a confirmation, the response
statusCount(r) ==
    /\ inflight[r].op = "updateBookingStatus"
    /\ inflight[r].phase = "saved"
    /\ services' = IF inflight[r].status = "confirmed"
                     THEN [services EXCEPT ![inflight[r].doc.service].totalBookings = @ + 1]
                     ELSE services
    /\ Respond("StatusUpdated")
    /\ inflight' = [inflight EXCEPT ![r] = Idle]
    /\ UNCHANGED <<now, users, pets, bookings>>

-----------------------------------------------------------------------------
(* ConfirmSpec: one booking and status requests served two at a time        *)

ConfirmNext ==
    \/ /\ Len(bookings) < MaxBookings
       /\ \E c \in Users, sid \in ServiceIds, pid \in PetIds :
               createBooking(c, sid, pid, 3 * MsPerDay, 4 * MsPerDay)
       /\ UNCHANGED <<edits, actor, inflight>>
    \/ /\ \E r \in Slots, c \in Users, bid \in BookingIdInputs, st \in Statuses :
               statusRead(r, c, bid, st, NoNotes)
       /\ UNCHANGED <<edits, actor>>
    \/ /\ \E r \in Slots : statusSave(r)
       /\ UNCHANGED <<edits, actor>>
    \/ /\ \E r \in Slots : statusCount(r)
       /\ UNCHANGED <<edits, actor>>

ConfirmSpec == Init /\ [][ConfirmNext]_vars

\* C29: also when two requests to confirm one pending booking are served
\* at the same time, the service's totalBookings goes up by 1 for that
\* booking, never by 2: the counter never exceeds the number of the
\* service's bookings.
C29_ConfirmCountsOnce ==
    \A sid \in ServiceIds :
        services[sid].totalBookings <= Cardinality({i \in 1..Len(bookings) : bookings[i].service = sid})

-----------------------------------------------------------------------------
(* Claims about deactivated accounts                                        *)

\* C30: no booking is created for a service whose sitter's account is
\* deactivated at the time of the request.
C30_NoBookingForDeactivatedSitter ==
    [][Len(bookings') > Len(bookings)
          => users[bookings'[Len(bookings')].sitter].isActive]_vars

=============================================================================
